---- MODULE Spec2Model ----
(***************************************************************************)
(* Model of data-exploration/debug_notebook.py: the environment probe      *)
(* (test_imports), the remote reachability check (test_usgs_api), the      *)
(* sample dataset builder (create_sample_data) and the entry routine       *)
(* (main) with its priority filter.  Console output is the sequence `out`. *)
(***************************************************************************)
EXTENDS Integers, Sequences, FiniteSets, TLC

VARIABLES pc, env, transport, attempted, out, imports_ok, api_works,
          gets, usgs_sites, priority_sites, exit

vars == <<pc, env, transport, attempted, out, imports_ok, api_works,
          gets, usgs_sites, priority_sites, exit>>

(* ---------------------------------------------------------------------- *)
(* Bounds of the model                                                     *)
(* ---------------------------------------------------------------------- *)
MaxBodyLines == 11
MaxRows == 3

(* ---------------------------------------------------------------------- *)
(* Program constants                                                       *)
(* ---------------------------------------------------------------------- *)
PreviewLimit == 10
HTTP_OK == 200

NL == "\n"
SP == " "
Whitespace == {SP, NL, "\t", "\r"}

(* The three libraries in the order test_imports loads them. *)
Libs == <<"pandas", "requests", "folium">>

(* What the environment holds for a library: not importable, importable    *)
(* with a __version__ attribute, importable without one.                   *)
LibStates == {"missing", "versioned", "unversioned"}

(* ---------------------------------------------------------------------- *)
(* Text helpers: str.strip(), str.split('\n'), slicing                      *)
(* ---------------------------------------------------------------------- *)
Min(a, b) == IF a <= b THEN a ELSE b

Take(s, n) == SubSeq(s, 1, Min(n, Len(s)))

RECURSIVE LStrip(_)
LStrip(s) == IF s # <<>> /\ Head(s) \in Whitespace THEN LStrip(Tail(s)) ELSE s

RECURSIVE RStrip(_)
RStrip(s) == IF s # <<>> /\ s[Len(s)] \in Whitespace
             THEN RStrip(SubSeq(s, 1, Len(s) - 1)) ELSE s

Strip(s) == RStrip(LStrip(s))

(* Python's s.split(sep): always at least one piece, empty pieces kept. *)
RECURSIVE SplitAcc(_, _, _)
SplitAcc(s, sep, cur) ==
    IF s = <<>> THEN <<cur>>
    ELSE IF Head(s) = sep THEN <<cur>> \o SplitAcc(Tail(s), sep, <<>>)
    ELSE SplitAcc(Tail(s), sep, Append(cur, Head(s)))

Split(s, sep) == SplitAcc(s, sep, <<>>)

RECURSIVE Join(_, _)
Join(ls, sep) == IF ls = <<>> THEN <<>>
                 ELSE IF Len(ls) = 1 THEN ls[1]
                 ELSE ls[1] \o <<sep>> \o Join(Tail(ls), sep)

(* response.text.strip().split('\n')[:10] *)
PreviewLines_NoStrip(text) == Take(Split(text, NL), PreviewLimit)

PreviewLines(text) == Take(Split(Strip(text), NL), PreviewLimit)

(* ---------------------------------------------------------------------- *)
(* create_sample_data: the literal station records and the shared columns   *)
(* ---------------------------------------------------------------------- *)
(* lat / lon are kept as integers, degrees * 10^4. *)
sample_sites == <<
    [site_no |-> "09371010", station_nm |-> "SAN JUAN RIVER AT FOUR CORNERS, CO",
     lat |-> 369989, lon |-> -1090453, state |-> "CO", county |-> "083", huc_cd |-> "14080201"],
    [site_no |-> "09379500", station_nm |-> "SAN JUAN RIVER NEAR BLUFF, UT",
     lat |-> 371906, lon |-> -1095281, state |-> "UT", county |-> "037", huc_cd |-> "14080204"],
    [site_no |-> "09368000", station_nm |-> "SAN JUAN RIVER AT SHIPROCK, NM",
     lat |-> 367856, lon |-> -1087267, state |-> "NM", county |-> "045", huc_cd |-> "14080105"],
    [site_no |-> "09364500", station_nm |-> "ANIMAS RIVER AT FARMINGTON, NM",
     lat |-> 367281, lon |-> -1081842, state |-> "NM", county |-> "045", huc_cd |-> "14080104"],
    [site_no |-> "09355500", station_nm |-> "ANIMAS RIVER AT DURANGO, CO",
     lat |-> 372756, lon |-> -1078803, state |-> "CO", county |-> "067", huc_cd |-> "14080104"] >>

WithColumns_WrongCode(row) ==
    [site_no |-> row.site_no, station_nm |-> row.station_nm, lat |-> row.lat,
     lon |-> row.lon, state |-> row.state, county |-> row.county, huc_cd |-> row.huc_cd,
     parameter_cd |-> "0060",
     parameter_name |-> "Streamflow, cubic feet per second",
     unit |-> "cfs"]

(* df['col'] = value : every row gets the column *)
WithColumns(row) ==
    [site_no |-> row.site_no, station_nm |-> row.station_nm, lat |-> row.lat,
     lon |-> row.lon, state |-> row.state, county |-> row.county, huc_cd |-> row.huc_cd,
     parameter_cd |-> "00060",
     parameter_name |-> "Streamflow, cubic feet per second",
     unit |-> "cfs"]

create_sample_data == [i \in 1..Len(sample_sites) |-> WithColumns(sample_sites[i])]

(* ---------------------------------------------------------------------- *)
(* main: the priority mapping (in dict order) and the isin() filter         *)
(* ---------------------------------------------------------------------- *)
PRIORITY_PARAMETERS == <<
    <<"00060", "Streamflow (Discharge), cubic feet per second">>,
    <<"00065", "Gage height, feet">>,
    <<"00010", "Water temperature, degrees Celsius">>,
    <<"00095", "Specific conductance, microsiemens per centimeter">>,
    <<"00300", "Dissolved oxygen, milligrams per liter">>,
    <<"00400", "pH, standard units">>,
    <<"00480", "Salinity, parts per thousand">> >>

PriorityKeys == {PRIORITY_PARAMETERS[i][1] : i \in 1..Len(PRIORITY_PARAMETERS)}

IsPriority_Inverted(row) == row.parameter_cd \notin PriorityKeys

IsPriority(row) == row.parameter_cd \in PriorityKeys

(* df[df['parameter_cd'].isin(keys)].copy() : a new table, rows in order *)
PriorityFilter(df) == SelectSeq(df, IsPriority)

(* Series.unique(): distinct values in order of first appearance *)
RECURSIVE UniqueAcc(_, _)
UniqueAcc(s, seen) ==
    IF s = <<>> THEN <<>>
    ELSE IF Head(s) \in seen THEN UniqueAcc(Tail(s), seen)
    ELSE <<Head(s)>> \o UniqueAcc(Tail(s), seen \cup {Head(s)})

Unique(s) == UniqueAcc(s, {})

(* ---------------------------------------------------------------------- *)
(* The stubbed transport: what requests.get does when it is called          *)
(* ---------------------------------------------------------------------- *)
TransportErrors == {"Timeout", "DNSFailure", "ConnectionRefused", "OtherException"}
Statuses == {200, 204, 404, 500}

Response(st, body) == [kind |-> "response", status |-> st, text |-> body, exc |-> "none"]
Raises(e)          == [kind |-> "exception", status |-> 0, text |-> <<>>, exc |-> e]

LineSet == {<<>>, <<SP, "a", SP>>}

(* all bodies of exactly n lines / of at most n lines *)
RECURSIVE LineSeqs(_)
LineSeqs(n) == IF n = 0 THEN {<<>>}
               ELSE {Append(ls, l) : ls \in LineSeqs(n - 1), l \in LineSet}

BodiesUpTo(n) == UNION {{Join(ls, NL) : ls \in LineSeqs(k)} : k \in 0..n}

(* twelve numbered-like lines, a blank-framed body, an empty body *)
LongBody == Join([i \in 1..(MaxBodyLines + 1) |-> IF i % 2 = 1 THEN <<"a">> ELSE <<"b">>], NL)
SampleBodies == {<<>>, <<"a">>, <<NL, "a", NL, "b", NL>>, <<SP, "a", SP>>, LongBody}

Transports == {Raises(e) : e \in TransportErrors}
              \cup {Response(st, b) : st \in Statuses, b \in SampleBodies}

Envs == [{"pandas", "requests", "folium"} -> LibStates]

(* ---------------------------------------------------------------------- *)
(* State                                                                   *)
(* ---------------------------------------------------------------------- *)
InitRun ==
    /\ pc = "main"
    /\ attempted = <<>>
    /\ out = <<>>
    /\ imports_ok = "unset"
    /\ api_works = "unset"
    /\ gets = 0
    /\ usgs_sites = <<>>
    /\ priority_sites = <<>>
    /\ exit = "running"

Init ==
    /\ env \in Envs
    /\ transport \in Transports
    /\ InitRun

Emit(line) == out' = Append(out, line)
EmitAll(ls) == out' = out \o ls

(* ---------------------------------------------------------------------- *)
(* main, lines 99-105: banner and interpreter facts                         *)
(* ---------------------------------------------------------------------- *)
MainBanner ==
    /\ pc = "main"
    /\ EmitAll(<< <<"banner">>, <<"rule">>, <<"python">>, <<"executable">>, <<"cwd">>,
                   <<"testing_imports">> >>)
    /\ pc' = "import_pandas"
    /\ UNCHANGED <<env, transport, attempted, imports_ok, api_works, gets,
                   usgs_sites, priority_sites, exit>>

(* ---------------------------------------------------------------------- *)
(* test_imports: one try block per library                                  *)
(* ---------------------------------------------------------------------- *)
(* pandas and folium print __version__ inside a try that only catches       *)
(* ImportError; the requests line prints no attribute.                      *)
ReadsVersion(lib) == lib \in {"pandas", "folium"}

(* the position after a successful try block *)
AfterImport(lib) == CASE lib = "pandas"   -> "import_requests"
                      [] lib = "requests" -> "import_folium"
                      [] lib = "folium"   -> "imports_return"

TryImport(lib, at) ==
    /\ pc = at
    /\ attempted' = Append(attempted, lib)
    /\ CASE env[lib] = "missing" ->
              (* except ImportError: print, return False *)
              /\ Emit(<<"import_failed", lib>>)
              /\ imports_ok' = "False"
              /\ pc' = "check_imports"
              /\ exit' = exit
         [] env[lib] = "unversioned" /\ ReadsVersion(lib) ->
              (* AttributeError in the f-string: not an ImportError, so it  *)
              (* leaves test_imports and main                              *)
              /\ out' = out
              /\ imports_ok' = imports_ok
              /\ pc' = "done"
              /\ exit' = "raised"
         [] OTHER ->
              /\ Emit(<<"import_ok", lib,
                         IF ReadsVersion(lib) THEN "with_version" ELSE "available">>)
              /\ imports_ok' = IF lib = "folium" THEN "True" ELSE imports_ok
              /\ pc' = IF lib = "folium" THEN "check_imports" ELSE AfterImport(lib)
              /\ exit' = exit
    /\ UNCHANGED <<env, transport, api_works, gets, usgs_sites, priority_sites>>

ImportPandas   == TryImport("pandas", "import_pandas")
ImportRequests == TryImport("requests", "import_requests")
ImportFolium   == TryImport("folium", "import_folium")

(* main, line 108: `if not test_imports():` *)
ProbeFailed_Never(result) == FALSE

ProbeFailed(result) == result = "False"

(* main, lines 108-110 *)
CheckImports ==
    /\ pc = "check_imports"
    /\ IF ProbeFailed(imports_ok)
       THEN /\ Emit(<<"import_test_failed">>)
            /\ pc' = "done"
            /\ exit' = "returned"
       ELSE /\ out' = out
            /\ pc' = "test_usgs_api"
            /\ exit' = exit
    /\ UNCHANGED <<env, transport, attempted, imports_ok, api_works, gets,
                   usgs_sites, priority_sites>>

(* ---------------------------------------------------------------------- *)
(* test_usgs_api: one GET, everything inside try / except Exception         *)
(* ---------------------------------------------------------------------- *)
PreviewOutput(text) ==
    LET lines == PreviewLines(text)
    IN <<<<"sample_response">>>> \o [i \in 1..Len(lines) |-> <<"preview", lines[i]>>]

ApiOutput(t) ==
    IF t.kind = "exception"
    THEN << <<"testing_api">>, <<"api_test_failed", t.exc>> >>
    ELSE << <<"testing_api">>, <<"api_status", t.status>> >>
         \o (IF t.status = HTTP_OK
             THEN PreviewOutput(t.text)
             ELSE << <<"api_returned_status", t.status>> >>)

ApiResult_Any2xx(t) ==
    IF t.kind = "exception" THEN "False"
    ELSE IF t.status >= 200 /\ t.status < 300 THEN "True" ELSE "False"

ApiResult(t) ==
    IF t.kind = "exception" THEN "False"
    ELSE IF t.status = HTTP_OK THEN "True" ELSE "False"

(* `except Exception as e`: every error the request can raise (timeout,     *)
(* DNS failure, refused connection, any other exception) is an Exception    *)
Handled_None(e) == FALSE

Handled_OnlyTimeout(e) == e = "Timeout"

Handled(e) == e \in TransportErrors

(* whether the call leaves test_usgs_api by an exception *)
ApiPropagates(t) == t.kind = "exception" /\ ~Handled(t.exc)

(* main, lines 113-116: the result is stored and the run goes on *)
AfterApi_Retry(result) == IF result = "False" THEN "test_usgs_api" ELSE "create_sample_data"

AfterApi(result) == "create_sample_data"

test_usgs_api ==
    /\ pc = "test_usgs_api"
    /\ gets' = gets + 1
    /\ IF ApiPropagates(transport)
       THEN /\ out' = out \o << <<"testing_api">> >>
            /\ api_works' = api_works
            /\ pc' = "done"
            /\ exit' = "raised"
       ELSE /\ EmitAll(ApiOutput(transport))
            /\ api_works' = ApiResult(transport)
            /\ pc' = AfterApi(ApiResult(transport))
            /\ exit' = exit
    /\ UNCHANGED <<env, transport, attempted, imports_ok, usgs_sites, priority_sites>>

(* ---------------------------------------------------------------------- *)
(* main, lines 116-117 with create_sample_data                              *)
(* ---------------------------------------------------------------------- *)
CreateData ==
    /\ pc = "create_sample_data"
    /\ usgs_sites' = create_sample_data
    /\ EmitAll(<< <<"creating_sample_data">>,
                   <<"created_sample_dataset", Len(create_sample_data)>> >>)
    /\ pc' = "basic_analysis"
    /\ UNCHANGED <<env, transport, attempted, imports_ok, api_works, gets,
                   priority_sites, exit>>

(* main, lines 120-123 *)
BasicAnalysis ==
    /\ pc = "basic_analysis"
    /\ EmitAll(<< <<"basic_analysis">>,
                   <<"total_sites", Len(usgs_sites)>>,
                   <<"states", Unique([i \in 1..Len(usgs_sites) |-> usgs_sites[i].state])>>,
                   <<"sample_site", usgs_sites[1].station_nm>> >>)
    /\ pc' = "priority_filter"
    /\ UNCHANGED <<env, transport, attempted, imports_ok, api_works, gets,
                   usgs_sites, priority_sites, exit>>

(* main, lines 126-145 *)
FilterAndReport ==
    /\ pc = "priority_filter"
    /\ priority_sites' = PriorityFilter(usgs_sites)
    /\ EmitAll(<< <<"priority_parameters">> >>
                \o [i \in 1..Len(PRIORITY_PARAMETERS) |->
                       <<"parameter", PRIORITY_PARAMETERS[i][1], PRIORITY_PARAMETERS[i][2]>>]
                \o << <<"sites_with_priority", Len(PriorityFilter(usgs_sites))>>,
                      <<"completed">>, <<"copy_back">> >>)
    /\ pc' = "done"
    /\ exit' = "returned"
    /\ UNCHANGED <<env, transport, attempted, imports_ok, api_works, gets, usgs_sites>>

Next ==
    \/ MainBanner
    \/ ImportPandas
    \/ ImportRequests
    \/ ImportFolium
    \/ CheckImports
    \/ test_usgs_api
    \/ CreateData
    \/ BasicAnalysis
    \/ FilterAndReport

Spec == Init /\ [][Next]_vars

(* The reachability check on its own: the probe has passed, the transport   *)
(* answers 200 with any body of the bounded set.                            *)
InitPreview ==
    /\ env = [l \in {"pandas", "requests", "folium"} |-> "versioned"]
    /\ transport \in {Response(HTTP_OK, b) : b \in BodiesUpTo(MaxBodyLines)}
    /\ pc = "test_usgs_api"
    /\ attempted = Libs
    /\ out = <<>>
    /\ imports_ok = "True"
    /\ api_works = "unset"
    /\ gets = 0
    /\ usgs_sites = <<>>
    /\ priority_sites = <<>>
    /\ exit = "running"

SpecPreview == InitPreview /\ [][test_usgs_api]_vars

(* the script is one sequential thread: a step that can run does run *)
FairSpec == Spec /\ WF_vars(Next)

(* The filter step on its own: the table holds up to MaxRows station rows   *)
(* with parameter codes inside and outside the mapping, or is the builder's *)
(* table.                                                                   *)
OtherCodes == {"00061", "60"}

WithCode(row, code) ==
    [site_no |-> row.site_no, station_nm |-> row.station_nm, lat |-> row.lat,
     lon |-> row.lon, state |-> row.state, county |-> row.county, huc_cd |-> row.huc_cd,
     parameter_cd |-> code,
     parameter_name |-> row.parameter_name,
     unit |-> row.unit]

Tables ==
    {create_sample_data} \cup
    UNION {{[i \in 1..n |-> WithCode(create_sample_data[i], codes[i])] :
               codes \in [1..n -> PriorityKeys \cup OtherCodes]} : n \in 1..MaxRows}

InitFilter ==
    /\ env = [l \in {"pandas", "requests", "folium"} |-> "versioned"]
    /\ transport = Raises("Timeout")
    /\ pc = "priority_filter"
    /\ attempted = Libs
    /\ out = <<>>
    /\ imports_ok = "True"
    /\ api_works = "False"
    /\ gets = 1
    /\ usgs_sites \in Tables
    /\ priority_sites = <<>>
    /\ exit = "running"

SpecFilter == InitFilter /\ [][FilterAndReport]_vars

(* ---------------------------------------------------------------------- *)
(* Reading the console                                                     *)
(* ---------------------------------------------------------------------- *)
Printed(line) == \E i \in 1..Len(out) : out[i] = line

PrintedTag(tag) == \E i \in 1..Len(out) : out[i][1] = tag

IsPreviewLine(line) == line[1] = "preview"

(* the preview lines on the console, in print order *)
Preview == LET ls == SelectSeq(out, IsPreviewLine) IN [i \in 1..Len(ls) |-> ls[i][2]]

(* position of the single line carrying `tag`, 0 when absent *)
PosOf(tag) == IF PrintedTag(tag) THEN CHOOSE i \in 1..Len(out) : out[i][1] = tag ELSE 0

ProbeOver == pc \notin {"main", "import_pandas", "import_requests", "import_folium"}

Missing == {i \in 1..Len(Libs) : env[Libs[i]] = "missing"}

FirstMissing == CHOOSE i \in Missing : \A j \in Missing : i <= j

ApiCalled == gets > 0

(* ---------------------------------------------------------------------- *)
(* Environment probe                                                       *)
(* ---------------------------------------------------------------------- *)

(* C1: the probe checks pandas, requests, folium in that order; if any of  *)
(* them is unavailable the probe returns False, has printed the failure    *)
(* line of the (first) unavailable library and has attempted no library    *)
(* after it; it returns True only when all three loaded.                   *)
C1_ProbeShortCircuits ==
    /\ attempted = SubSeq(Libs, 1, Len(attempted))
    /\ ProbeOver =>
         /\ Missing # {} =>
              /\ imports_ok = "False"
              /\ Printed(<<"import_failed", Libs[FirstMissing]>>)
              /\ attempted = SubSeq(Libs, 1, FirstMissing)
         /\ imports_ok = "True" => \A i \in 1..Len(Libs) : env[Libs[i]] # "missing"

(* C10: a library that loaded has a confirmation line, the line carries    *)
(* the version whenever the library exposes one, and a library that loads  *)
(* without a version neither fails the probe nor raises.                   *)
C10_LoadedLibraryConfirmed ==
    \A i \in 1..Len(attempted) :
        (env[Libs[i]] # "missing") =>
            /\ exit # "raised"
            /\ \E k \in 1..Len(out) :
                  /\ out[k][1] = "import_ok"
                  /\ out[k][2] = Libs[i]
                  /\ env[Libs[i]] = "versioned" => out[k][3] = "with_version"

(* ---------------------------------------------------------------------- *)
(* Entry routine                                                           *)
(* ---------------------------------------------------------------------- *)

(* C2: when the probe returns False the run prints the error and ends by a *)
(* normal return; no GET is issued, no dataset is built, and neither the   *)
(* 'Total sites' nor the 'Sites with priority parameters' line appears.    *)
NothingAfterProbe ==
    /\ gets = 0
    /\ api_works = "unset"
    /\ usgs_sites = <<>>
    /\ priority_sites = <<>>
    /\ ~PrintedTag("testing_api")
    /\ ~PrintedTag("created_sample_dataset")
    /\ ~PrintedTag("total_sites")
    /\ ~PrintedTag("sites_with_priority")
    /\ exit # "raised"
    /\ pc \in {"check_imports", "done"}

EndedEarly == pc = "done" /\ exit = "returned" /\ Printed(<<"import_test_failed">>)

C2_FailedProbeEndsRun ==
    /\ [](imports_ok = "False" => NothingAfterProbe)
    /\ (imports_ok = "False") ~> EndedEarly

C2_Witness == imports_ok = "False" /\ EndedEarly /\ NothingAfterProbe

(* C3: when the probe succeeds the run reaches the end of the filter and   *)
(* reporter step for every outcome of the reachability check; the steps    *)
(* are printed in the order check, builder, analysis, filter; the totals   *)
(* are 5 and 5.                                                            *)
Completed ==
    /\ pc = "done"
    /\ exit = "returned"
    /\ Printed(<<"total_sites", 5>>)
    /\ Printed(<<"sites_with_priority", 5>>)
    /\ Printed(<<"completed">>)

StepsInOrder ==
    /\ 0 < PosOf("testing_api")
    /\ PosOf("testing_api") < PosOf("created_sample_dataset")
    /\ PosOf("created_sample_dataset") < PosOf("total_sites")
    /\ PosOf("total_sites") < PosOf("sites_with_priority")

C3_SuccessfulProbeCompletes ==
    /\ []((pc = "done" /\ imports_ok = "True") => (Completed /\ StepsInOrder))
    /\ (imports_ok = "True") ~> Completed

C3_Witness == Completed /\ StepsInOrder /\ transport.kind = "exception" /\ api_works = "False"

(* ---------------------------------------------------------------------- *)
(* Remote reachability check                                               *)
(* ---------------------------------------------------------------------- *)

(* C4: for every transport failure of the GET the check prints a           *)
(* diagnostic line and returns False; the exception does not leave it.     *)
C4_TransportFailureContained ==
    (ApiCalled /\ transport.kind = "exception") =>
        /\ api_works = "False"
        /\ Printed(<<"api_test_failed", transport.exc>>)
        /\ exit # "raised"
        /\ pc \notin {"test_usgs_api", "check_imports"}

C4_Witness ==
    /\ ApiCalled
    /\ transport.kind = "exception"
    /\ transport.exc = "Timeout"
    /\ api_works = "False"
    /\ pc = "create_sample_data"

(* C5: for every completed response the status code is printed and the    *)
(* result is True exactly when the status is 200; any other status prints  *)
(* the non-success line, no preview, and gives False.                      *)
C5_SuccessIffStatus200 ==
    (ApiCalled /\ transport.kind = "response") =>
        /\ Printed(<<"api_status", transport.status>>)
        /\ api_works \in {"True", "False"}
        /\ api_works = "True" <=> transport.status = 200
        /\ transport.status # 200 =>
              /\ Printed(<<"api_returned_status", transport.status>>)
              /\ ~PrintedTag("sample_response")
              /\ ~PrintedTag("preview")
              /\ api_works = "False"

C5_Witness ==
    /\ ApiCalled
    /\ transport.kind = "response"
    /\ transport.status = 204
    /\ api_works = "False"
    /\ Printed(<<"api_returned_status", 204>>)

(* The lines of a text, counted either way: a final newline ends the last  *)
(* line (str.splitlines) or opens one more, empty, line (split on newline). *)
BodyLines(text) ==
    IF text = <<>> THEN <<>>
    ELSE IF text[Len(text)] = NL THEN Split(SubSeq(text, 1, Len(text) - 1), NL)
    ELSE Split(text, NL)

IsFirstLinesOf(pv, body) ==
    /\ Len(pv) = Min(Len(body), 10)
    /\ \A i \in 1..Len(pv) : i <= Len(body) /\ pv[i] = body[i]

NonWs(text) == {i \in 1..Len(text) : text[i] \notin Whitespace}

Core(text) ==
    IF NonWs(text) = {} THEN <<>>
    ELSE LET f == CHOOSE i \in NonWs(text) : \A j \in NonWs(text) : i <= j
             l == CHOOSE i \in NonWs(text) : \A j \in NonWs(text) : j <= i
         IN SubSeq(text, f, l)

C7_AtMostOneGet ==
    /\ gets <= 1
    /\ imports_ok = "False" => gets = 0
    /\ imports_ok = "unset" => gets = 0
    /\ (imports_ok = "True" /\ pc \notin {"check_imports", "test_usgs_api"}) => gets = 1
    /\ Len(SelectSeq(out, LAMBDA l : l[1] = "testing_api")) = gets

C7_Witness ==
    /\ pc = "done"
    /\ gets = 1
    /\ transport.kind = "exception"
    /\ transport.exc = "Timeout"
    /\ api_works = "False"

(* ---------------------------------------------------------------------- *)
(* Sample dataset builder and priority filter                              *)
(* ---------------------------------------------------------------------- *)
SiteIds == {"09371010", "09379500", "09368000", "09364500", "09355500"}

(* C8: the table the builder returns has exactly 5 records, pairwise       *)
(* distinct non-empty site identifiers that form the set SiteIds, and the  *)
(* shared parameter code 00060, name and unit on every record; a further   *)
(* call returns equal content.                                             *)
C8_BuilderTable ==
    (pc \in {"basic_analysis", "priority_filter"} \/ (pc = "done" /\ PrintedTag("completed"))) =>
        /\ Len(usgs_sites) = 5
        /\ Printed(<<"created_sample_dataset", 5>>)
        /\ \A i, j \in 1..Len(usgs_sites) :
               i # j => usgs_sites[i].site_no # usgs_sites[j].site_no
        /\ \A i \in 1..Len(usgs_sites) : usgs_sites[i].site_no # ""
        /\ {usgs_sites[i].site_no : i \in 1..Len(usgs_sites)} = SiteIds
        /\ \A i \in 1..Len(usgs_sites) :
               /\ usgs_sites[i].parameter_cd = "00060"
               /\ usgs_sites[i].parameter_name = usgs_sites[1].parameter_name
               /\ usgs_sites[i].unit = usgs_sites[1].unit
        /\ create_sample_data = usgs_sites

C8_Witness ==
    /\ pc = "basic_analysis"
    /\ Len(usgs_sites) = 5
    /\ usgs_sites[5].site_no = "09355500"
    /\ usgs_sites[5].parameter_cd = "00060"

SevenCodes == {"00060", "00065", "00010", "00095", "00300", "00400", "00480"}

(* positions of the rows of a table whose code is one of the seven *)
Kept(df) == {i \in 1..Len(df) : df[i].parameter_cd \in SevenCodes}

(* the k-th kept position, counted from the top of the table *)
KthKept(df, k) == CHOOSE i \in Kept(df) : Cardinality({j \in Kept(df) : j <= i}) = k

(* C9: the mapping has the seven keys; the filter keeps exactly the rows   *)
(* whose code is a key, in table order; on the builder's table it returns  *)
(* all 5 rows; filtering its result again changes nothing; the input table *)
(* is left as it was.                                                      *)
FilterResult ==
    (pc = "done" /\ PrintedTag("sites_with_priority")) =>
        /\ Len(priority_sites) = Cardinality(Kept(usgs_sites))
        /\ \A k \in 1..Len(priority_sites) :
               priority_sites[k] = usgs_sites[KthKept(usgs_sites, k)]
        /\ Printed(<<"sites_with_priority", Cardinality(Kept(usgs_sites))>>)
        /\ PriorityFilter(priority_sites) = priority_sites
        /\ usgs_sites = create_sample_data =>
               Len(priority_sites) = 5 /\ priority_sites = usgs_sites

C9_PriorityFilter ==
    /\ [](PriorityKeys = SevenCodes /\ Len(PRIORITY_PARAMETERS) = 7)
    /\ []FilterResult
    /\ [][usgs_sites' = usgs_sites]_vars

C9_Witness ==
    /\ pc = "done"
    /\ usgs_sites = create_sample_data
    /\ Len(priority_sites) = 5
    /\ priority_sites = usgs_sites

====
